---- MODULE Spec2Model ----
(***************************************************************************)
(* Ledger-event reconciliation pipeline of BlockchainService (event        *)
(* queues, the periodic drain, the four event processors) and the          *)
(* arbitrator selection of ArbitratorManager.                              *)
(***************************************************************************)
EXTENDS Integers, Sequences, FiniteSets, TLC

\* ---------------------------------------------------------------- bounds
MaxDeliveries == 2
MaxTicks == 2
MaxFailures == 1
MaxConnEvents == 8
MaxBids == 3
MaxCalls == 1
MaxPool == 6
MaxShuffleSeed == 479
MaxJobs == 51
MaxUint == 15
MaxMissed == 1

\* ------------------------------------------------------ program constants
BatchSize == 10
MaxRetries == 3
MaxReconnectAttempts == 5
\* JobFactory constants; amounts are in units of 0.01 ether.
MAX_JOBS_PER_CLIENT == 50
JOB_CREATION_FEE == 1
MAX_MILESTONES == 10
MIN_JOB_BUDGET == 1
MAX_JOB_BUDGET == 1000000

\* ------------------------------------------------------------ the ledger
JobIds == {"J1"}
EscrowIds == {"E1"}
EventTypes == {"jobCreated", "bidSubmitted", "milestoneCompleted", "disputeRaised"}
EventIds == {"jc1", "bs1", "mc0", "mc1", "dr1"}

\* The payload of each ledger event, keyed by its transaction hash.
EventData(e) ==
  CASE e = "jc1" -> [type |-> "jobCreated", jobId |-> "J1", escrowId |-> "none",
                     milestoneIndex |-> 0, amount |-> 0, disputeId |-> "none"]
    [] e = "bs1" -> [type |-> "bidSubmitted", jobId |-> "J1", escrowId |-> "none",
                     milestoneIndex |-> 0, amount |-> 0, disputeId |-> "none"]
    [] e = "mc0" -> [type |-> "milestoneCompleted", jobId |-> "none", escrowId |-> "E1",
                     milestoneIndex |-> 0, amount |-> 600, disputeId |-> "none"]
    [] e = "mc1" -> [type |-> "milestoneCompleted", jobId |-> "none", escrowId |-> "E1",
                     milestoneIndex |-> 1, amount |-> 400, disputeId |-> "none"]
    [] e = "dr1" -> [type |-> "disputeRaised", jobId |-> "none", escrowId |-> "E1",
                     milestoneIndex |-> 0, amount |-> 0, disputeId |-> "D1"]

Instances == EventIds \X (1..MaxDeliveries)

VARIABLES
  queue,        \* eventProcessingQueue: event type -> array of queued event objects
  typesOrder,   \* key insertion order of the eventProcessingQueue Map
  slots,        \* the running invocations of the interval callback
  delivered,    \* how many times the subscription has delivered each event
  failures,     \* external calls that have thrown so far
  signer,       \* whether a signer is configured
  jobs,         \* durable store: job records
  bids,         \* durable store: bid rows
  milestones,   \* durable store: milestone rows of each escrow
  escrows,      \* durable store: escrow records
  disputes,     \* durable store: dispute records
  jobCache,     \* cache: job data
  bidCount,     \* cache: bid count per job
  txCount,      \* selectArbitratorForDispute transactions submitted, per event object
  fails,        \* failed processing attempts, per event object
  requeues,     \* re-enqueues by the catch block, per event object
  applied,      \* successful processing attempts, per event object
  dropped,      \* event objects the catch block did not re-enqueue
  partial,      \* event objects with a failed attempt that had already written
  enqSeq,       \* event objects in the order the handlers enqueued them
  ahead,        \* per event object: the entries that were waiting in the queue of
                \* its type when the catch block last re-enqueued it
  sel,          \* one arbitrator selection: its inputs and the panel it returned
  conn,         \* the provider connection: reconnectAttempts, isConnected, the
                \* pending reconnect timers, what was scheduled and reported
  chain,        \* the job contract on the ledger: job status and bids
  api,          \* transactions submitted by createJob / submitBid / acceptBid
  factory,      \* the JobFactory contract: its storage and the outcome of the last call
  vault,        \* the VerifiedEscrow contract: escrows and totalEscrowBalance
  ingest,       \* the running invocations of the subscription's event handlers
  wallet        \* the Web3Service: its fields, tracked transactions and callbacks

store == <<jobs, bids, milestones, escrows, disputes>>
cache == <<jobCache, bidCount>>
hist == <<fails, requeues, applied, dropped, partial, enqSeq, ahead>>
front == <<ingest, wallet>>
side == <<sel, conn, chain, api, factory, vault, front>>
vars == <<queue, typesOrder, slots, delivered, failures, signer, jobs, bids, milestones,
          escrows, disputes, jobCache, bidCount, txCount, fails, requeues, applied,
          dropped, partial, enqSeq, ahead, sel, conn, chain, api, factory, vault,
          ingest, wallet>>

Min(a, b) == IF a < b THEN a ELSE b
Range(s) == {s[i] : i \in 1..Len(s)}

\* ------------------------------------------------------- the durable store
MilestoneAmounts == <<600, 400>>
NumMilestones == Len(MilestoneAmounts)

TotalAmount == MilestoneAmounts[1] + MilestoneAmounts[2]
NoJob == [status |-> "NONE"]
OpenJob == [status |-> "OPEN"]
PendingMilestone == [status |-> "PENDING", approvalCount |-> 0]
CompletedMilestone == [status |-> "COMPLETED", approvalCount |-> 0]
EscrowWith(released) == [jobId |-> "J1", totalAmount |-> TotalAmount,
                         releasedAmount |-> released, disputedAmount |-> 0,
                         status |-> "ACTIVE"]

\* What the durable store holds when the service is constructed: nothing of the
\* job yet, the job as reconciled from its JobCreated event, or the job and
\* the release of its first milestone as reconciled by an earlier run.
InitStores ==
  { [job |-> NoJob, ms |-> <<PendingMilestone, PendingMilestone>>, released |-> 0],
    [job |-> OpenJob, ms |-> <<PendingMilestone, PendingMilestone>>, released |-> 0],
    [job |-> OpenJob, ms |-> <<CompletedMilestone, PendingMilestone>>,
     released |-> MilestoneAmounts[1]] }

NoSelection == [phase |-> "none"]
\* The connection fields as the constructor leaves them: one provider with its
\* handlers registered, not yet connected, no reconnect timer pending.  sockets
\* holds the state of every provider created so far, this.provider last.
NewConnection == [reconnectAttempts |-> 0, isConnected |-> FALSE, timers |-> 0,
                  sinceConnect |-> 0, reported |-> 0, events |-> 0, last |-> "none",
                  sockets |-> <<"connecting">>, missed |-> 0]
\* The job contract as its initialize leaves it: open for bidding, no bids.
NewJobContract == [status |-> "OPEN", bids |-> <<>>]
\* The JobFactory after initialize: no job, no authorized client, not paused.
FactoryClients == {"A"}
NoCall == [op |-> "none", error |-> "none", sender |-> "none", sumMatches |-> TRUE]
NewFactory == [jobCounter |-> 0, jobs |-> <<>>,
               clientJobCount |-> [c \in FactoryClients \cup {"O"} |-> 0],
               authorizedClients |-> [c \in FactoryClients |-> FALSE],
               paused |-> FALSE, last |-> NoCall]

\* The VerifiedEscrow contract after deployment.
VaultJobs == {1, 2}
NewVault == [escrows |-> [j \in VaultJobs |-> 0], totalEscrowBalance |-> 0,
             balance |-> 0, last |-> [op |-> "none", result |-> "none"]]

\* No event handler of the subscription is running.
NoHandlers == [pending |-> {}, received |-> <<>>, lost |-> {}]

\* The Web3Service after construction: nothing connected, no transaction tracked.
TxHashes == {"t1", "t2"}
NoEmit == [event |-> "none", hash |-> "none"]
NewWallet == [provider |-> FALSE, signer |-> FALSE, contracts |-> FALSE,
              currentAccount |-> "none", currentChainId |-> 0, listening |-> FALSE,
              pendingTransactions |-> [h \in TxHashes |-> "none"],
              sending |-> {}, waits |-> {}, timers |-> {}, sent |-> {},
              cleared |-> FALSE, emitted |-> NoEmit,
              call |-> [op |-> "none", result |-> "none"]]

\* No transaction submitted through createJob / submitBid / acceptBid yet.
NoCalls == [pending |-> <<>>, last |-> [op |-> "none", result |-> "none"], calls |-> 0]

IdleSlot == [pc |-> "idle", ti |-> 0, batch |-> <<>>, dirty |-> FALSE]

PipelineInit(st, sg) ==
  /\ queue = [t \in EventTypes |-> <<>>]
  /\ typesOrder = <<>>
  /\ slots = [s \in 1..MaxTicks |-> IdleSlot]
  /\ delivered = [e \in EventIds |-> 0]
  /\ failures = 0
  /\ signer = sg
  /\ jobs = [j \in JobIds |-> st.job]
  /\ milestones = [x \in EscrowIds |-> [i \in 0..(NumMilestones - 1) |-> st.ms[i + 1]]]
  /\ escrows = [x \in EscrowIds |-> EscrowWith(st.released)]
  /\ bids = <<>>
  /\ disputes = {}
  /\ jobCache = {}
  /\ bidCount = [j \in JobIds |-> 0]
  /\ txCount = [i \in Instances |-> 0]
  /\ fails = [i \in Instances |-> 0]
  /\ requeues = [i \in Instances |-> 0]
  /\ applied = [i \in Instances |-> 0]
  /\ dropped = {}
  /\ partial = {}
  /\ enqSeq = <<>>
  /\ ahead = [i \in Instances |-> {}]
  /\ conn = NewConnection
  /\ chain = NewJobContract
  /\ api = NoCalls
  /\ factory = NewFactory
  /\ vault = NewVault
  /\ ingest = NoHandlers
  /\ wallet = NewWallet

Init ==
  /\ \E st \in InitStores, sg \in BOOLEAN : PipelineInit(st, sg)
  /\ sel = NoSelection

\* ------------------------------------------------------------- the queue
\* addToProcessingQueue: create the type's array on first use, push at the tail.
AddToProcessingQueueAtHead(q, t, entry) == [q EXCEPT ![t] = <<entry>> \o @]
AddToProcessingQueue(q, t, entry) == [q EXCEPT ![t] = Append(@, entry)]
AddKey(order, t) == IF t \in Range(order) THEN order ELSE Append(order, t)

TotalDelivered == delivered["jc1"] + delivered["bs1"] + delivered["mc0"]
                  + delivered["mc1"] + delivered["dr1"]

\* handleJobCreated / handleBidSubmitted / handleMilestoneCompleted /
\* handleDisputeRaised: a delivered event is put on the queue of its type.
Deliver(e) ==
  /\ TotalDelivered < MaxDeliveries
  /\ delivered' = [delivered EXCEPT ![e] = @ + 1]
  /\ queue' = AddToProcessingQueue(queue, EventData(e).type,
                                   [ev |-> e, d |-> delivered[e] + 1, retryCount |-> 0])
  /\ typesOrder' = AddKey(typesOrder, EventData(e).type)
  /\ enqSeq' = Append(enqSeq, <<e, delivered[e] + 1>>)
  /\ UNCHANGED <<slots, failures, signer, store, cache, txCount, fails, requeues,
                 applied, dropped, partial, ahead, side>>

\* ------------------------------------------------------------- the drain
FirstPc(t) ==
  CASE t = "jobCreated" -> "jc_save"
    [] t = "bidSubmitted" -> "bs_getJob"
    [] t = "milestoneCompleted" -> "mc_update"
    [] t = "disputeRaised" -> "dr_getJob"

\* The retry test of the catch block.
CanRetryOffByOne(retryCount) == retryCount <= MaxRetries
CanRetryUncapped(retryCount) == retryCount >= 0
CanRetry(retryCount) == retryCount < MaxRetries

\* The next Map entry after position ti whose array is not empty (0: none).
NextType(q, order, ti) ==
  LET js == {j \in (ti + 1)..Len(order) : Len(q[order[j]]) > 0}
  IN IF js = {} THEN 0 ELSE CHOOSE j \in js : \A k \in js : j <= k

\* The for-of loop of the interval callback, from Map position ti on: splice
\* the first BatchSize events of the next non-empty array and start on the first.
StartFrom(q, order, ti) ==
  LET j == NextType(q, order, ti)
  IN IF j = 0
     THEN [q |-> q, slot |-> IdleSlot]
     ELSE LET t == order[j]
              n == Min(BatchSize, Len(q[t]))
          IN [q |-> [q EXCEPT ![t] = SubSeq(@, n + 1, Len(@))],
              slot |-> [pc |-> FirstPc(t), ti |-> j, batch |-> SubSeq(q[t], 1, n),
                        dirty |-> FALSE]]

Busy(s) == slots[s].pc # "idle"
Cur(s) == Head(slots[s].batch)
CurInst(s) == <<Cur(s).ev, Cur(s).d>>
CurData(s) == EventData(Cur(s).ev)
At(s, p) == slots[s].pc = p

\* One firing of the setInterval callback, up to its first await.
TickStart ==
  /\ \E s \in 1..MaxTicks :
       /\ ~Busy(s)
       /\ \A r \in 1..(s - 1) : Busy(r)
       /\ NextType(queue, typesOrder, 0) # 0
       /\ LET nxt == StartFrom(queue, typesOrder, 0)
          IN /\ queue' = nxt.q
             /\ slots' = [slots EXCEPT ![s] = nxt.slot]
  /\ UNCHANGED <<typesOrder, delivered, failures, signer, store, cache, txCount, hist,
                 side>>

\* An awaited call resolved and the processor moves on to its next await.
Goto(s, p) ==
  /\ slots' = [slots EXCEPT ![s].pc = p,
                            ![s].dirty = @ \/ store' # store \/ cache' # cache
                                           \/ txCount' # txCount]
  /\ UNCHANGED <<queue, typesOrder, delivered, failures, signer, hist, side>>

\* processEvent returned (failed = FALSE) or threw (failed = TRUE): the catch
\* block of the callback, then the rest of the batch and of the Map.
CompleteStopsOnFailure(s, failed) ==
  LET cur == Cur(s)
      inst == CurInst(s)
      t == CurData(s).type
      retry == failed /\ CanRetry(cur.retryCount)
      q1 == IF retry
            THEN AddToProcessingQueue(queue, t, [cur EXCEPT !.retryCount = @ + 1])
            ELSE queue
      rest == Tail(slots[s].batch)
      nxt == IF failed THEN [q |-> q1, slot |-> IdleSlot]
             ELSE IF rest # <<>>
             THEN [q |-> q1, slot |-> [pc |-> FirstPc(t), ti |-> slots[s].ti,
                                       batch |-> rest, dirty |-> FALSE]]
             ELSE StartFrom(q1, typesOrder, slots[s].ti)
      wrote == slots[s].dirty \/ store' # store \/ cache' # cache \/ txCount' # txCount
  IN /\ queue' = nxt.q
     /\ slots' = [slots EXCEPT ![s] = nxt.slot]
     /\ fails' = IF failed THEN [fails EXCEPT ![inst] = @ + 1] ELSE fails
     /\ requeues' = IF retry THEN [requeues EXCEPT ![inst] = @ + 1] ELSE requeues
     /\ applied' = IF failed THEN applied ELSE [applied EXCEPT ![inst] = @ + 1]
     /\ dropped' = IF failed /\ ~retry THEN dropped \cup {inst} ELSE dropped
     /\ partial' = IF failed /\ wrote THEN partial \cup {inst} ELSE partial
     /\ ahead' = [ahead EXCEPT ![inst] = IF retry THEN Range(queue[t]) ELSE {}]
     /\ UNCHANGED <<typesOrder, delivered, signer, enqSeq, side>>
Complete(s, failed) ==
  LET cur == Cur(s)
      inst == CurInst(s)
      t == CurData(s).type
      retry == failed /\ CanRetry(cur.retryCount)
      q1 == IF retry
            THEN AddToProcessingQueue(queue, t, [cur EXCEPT !.retryCount = @ + 1])
            ELSE queue
      rest == Tail(slots[s].batch)
      nxt == IF rest # <<>>
             THEN [q |-> q1, slot |-> [pc |-> FirstPc(t), ti |-> slots[s].ti,
                                       batch |-> rest, dirty |-> FALSE]]
             ELSE StartFrom(q1, typesOrder, slots[s].ti)
      wrote == slots[s].dirty \/ store' # store \/ cache' # cache \/ txCount' # txCount
  IN /\ queue' = nxt.q
     /\ slots' = [slots EXCEPT ![s] = nxt.slot]
     /\ fails' = IF failed THEN [fails EXCEPT ![inst] = @ + 1] ELSE fails
     /\ requeues' = IF retry THEN [requeues EXCEPT ![inst] = @ + 1] ELSE requeues
     /\ applied' = IF failed THEN applied ELSE [applied EXCEPT ![inst] = @ + 1]
     /\ dropped' = IF failed /\ ~retry THEN dropped \cup {inst} ELSE dropped
     /\ partial' = IF failed /\ wrote THEN partial \cup {inst} ELSE partial
     /\ ahead' = [ahead EXCEPT ![inst] = IF retry THEN Range(queue[t]) ELSE {}]
     /\ UNCHANGED <<typesOrder, delivered, signer, enqSeq, side>>

\* An awaited external call (metadata fetch, store, cache, notification,
\* transaction submission) throws.
StepFail ==
  /\ failures < MaxFailures
  /\ failures' = failures + 1
  /\ UNCHANGED <<store, cache, txCount>>
  /\ \E s \in 1..MaxTicks : Busy(s) /\ Complete(s, TRUE)

\* ---------------------------------------------- DatabaseService, CacheService
SaveJob(js, j) == [js EXCEPT ![j] = OpenJob]
JobFound(j) == jobs[j].status # "NONE"
SaveBid(bs, row) == Append(bs, row)
UpdateMilestoneStatus(ms, x, i, st) == [ms EXCEPT ![x][i].status = st]
RecordRelease(es, x, amount) == [es EXCEPT ![x].releasedAmount = @ + amount]
UpdateJobStatus(js, j, st) == [js EXCEPT ![j].status = st]
SaveDispute(ds, d) == ds \cup {d}
IncrementJobBidCount(bc, j) == [bc EXCEPT ![j] = @ + 1]

\* checkAllMilestonesCompleted
CheckAllMilestonesCompleted(x) ==
  \A i \in DOMAIN milestones[x] : milestones[x][i].status = "COMPLETED"

\* ------------------------------------------------- processJobCreatedEvent
\* 1-4: metadata fetch, token information, price conversion, saveJob with
\* status OPEN.
JcSaveOk(s) ==
  /\ At(s, "jc_save")
  /\ jobs' = SaveJob(jobs, CurData(s).jobId)
  /\ UNCHANGED <<bids, milestones, escrows, disputes, cache, txCount>>
  /\ Goto(s, "jc_cache")

\* 5: setJobData.
JcCacheOk(s) ==
  /\ At(s, "jc_cache")
  /\ jobCache' = jobCache \cup {CurData(s).jobId}
  /\ UNCHANGED <<store, bidCount, txCount>>
  /\ Goto(s, "jc_notify")

\* 6-7: notifyJobCreated, emitRealTimeUpdate.
JcNotifyOk(s) ==
  /\ At(s, "jc_notify")
  /\ UNCHANGED <<store, cache, txCount, failures>>
  /\ Complete(s, FALSE)

\* ------------------------------------------------ processBidSubmittedEvent
\* 1: fetchBidData; 2: getJobById found the job; 3: price conversion.
BsGetJobFound(s) ==
  /\ At(s, "bs_getJob")
  /\ JobFound(CurData(s).jobId)
  /\ UNCHANGED <<store, cache, txCount>>
  /\ Goto(s, "bs_save")

\* 1: fetchBidData; 2: getJobById returned nothing: throw 'Job not found'.
BsGetJobMissing(s) ==
  /\ At(s, "bs_getJob")
  /\ ~JobFound(CurData(s).jobId)
  /\ UNCHANGED <<store, cache, txCount, failures>>
  /\ Complete(s, TRUE)

\* 4: saveBid with status ACTIVE.
BsSaveOk(s) ==
  /\ At(s, "bs_save")
  /\ bids' = SaveBid(bids, [jobId |-> CurData(s).jobId, freelancer |-> "F1",
                            status |-> "ACTIVE", transactionHash |-> Cur(s).ev])
  /\ UNCHANGED <<jobs, milestones, escrows, disputes, cache, txCount>>
  /\ Goto(s, "bs_notify")

\* 5: notifyNewBid.
BsNotifyOk(s) ==
  /\ At(s, "bs_notify")
  /\ UNCHANGED <<store, cache, txCount>>
  /\ Goto(s, "bs_count")

\* 6-7: incrementJobBidCount, emitRealTimeUpdate.
BsCountOk(s) ==
  /\ At(s, "bs_count")
  /\ bidCount' = IncrementJobBidCount(bidCount, CurData(s).jobId)
  /\ UNCHANGED <<store, jobCache, txCount, failures>>
  /\ Complete(s, FALSE)

\* ------------------------------------------ processMilestoneCompletedEvent
\* 1: updateMilestoneStatus(escrowId, milestoneIndex, 'COMPLETED', {amount, ...}).
McUpdateOk(s) ==
  /\ At(s, "mc_update")
  /\ milestones' = UpdateMilestoneStatus(milestones, CurData(s).escrowId,
                                         CurData(s).milestoneIndex, "COMPLETED")
  /\ escrows' = RecordRelease(escrows, CurData(s).escrowId, CurData(s).amount)
  /\ UNCHANGED <<jobs, bids, disputes, cache, txCount>>
  /\ Goto(s, "mc_getJob")

\* 2: getEscrowById, getJobByContractAddress found the job.
McGetJobFound(s) ==
  /\ At(s, "mc_getJob")
  /\ JobFound(escrows[CurData(s).escrowId].jobId)
  /\ UNCHANGED <<store, cache, txCount>>
  /\ Goto(s, "mc_notify")

\* 2: getJobByContractAddress returned nothing: job.title throws.
McGetJobMissing(s) ==
  /\ At(s, "mc_getJob")
  /\ ~JobFound(escrows[CurData(s).escrowId].jobId)
  /\ UNCHANGED <<store, cache, txCount, failures>>
  /\ Complete(s, TRUE)

\* 3: notifyMilestoneCompleted; 4: checkAllMilestonesCompleted is true.
McCheckAll(s) ==
  /\ At(s, "mc_notify")
  /\ CheckAllMilestonesCompleted(CurData(s).escrowId)
  /\ UNCHANGED <<store, cache, txCount>>
  /\ Goto(s, "mc_jobStatus")

\* 3: notifyMilestoneCompleted; 4: checkAllMilestonesCompleted is false;
\* 5: emitRealTimeUpdate.
McCheckNotAll(s) ==
  /\ At(s, "mc_notify")
  /\ ~CheckAllMilestonesCompleted(CurData(s).escrowId)
  /\ UNCHANGED <<store, cache, txCount, failures>>
  /\ Complete(s, FALSE)

\* 4: updateJobStatus(job.id, 'COMPLETED').
McJobStatusOk(s) ==
  /\ At(s, "mc_jobStatus")
  /\ jobs' = UpdateJobStatus(jobs, escrows[CurData(s).escrowId].jobId, "COMPLETED")
  /\ UNCHANGED <<bids, milestones, escrows, disputes, cache, txCount>>
  /\ Goto(s, "mc_notifyJob")

\* 4: notifyJobCompleted; 5: emitRealTimeUpdate.
McNotifyJobOk(s) ==
  /\ At(s, "mc_notifyJob")
  /\ UNCHANGED <<store, cache, txCount, failures>>
  /\ Complete(s, FALSE)

\* ----------------------------------------------- processDisputeRaisedEvent
\* 1: getEscrowById, getJobByContractAddress found the job.
DrGetJobFound(s) ==
  /\ At(s, "dr_getJob")
  /\ JobFound(escrows[CurData(s).escrowId].jobId)
  /\ UNCHANGED <<store, cache, txCount>>
  /\ Goto(s, "dr_save")

\* 1: getJobByContractAddress returned nothing: job.id throws.
DrGetJobMissing(s) ==
  /\ At(s, "dr_getJob")
  /\ ~JobFound(escrows[CurData(s).escrowId].jobId)
  /\ UNCHANGED <<store, cache, txCount, failures>>
  /\ Complete(s, TRUE)

\* 2: saveDispute with status PENDING.
DrSaveOk(s) ==
  /\ At(s, "dr_save")
  /\ disputes' = SaveDispute(disputes, CurData(s).disputeId)
  /\ UNCHANGED <<jobs, bids, milestones, escrows, cache, txCount>>
  /\ Goto(s, "dr_status")

\* 3: updateJobStatus(job.id, 'DISPUTED'); 4: a signer is configured.
DrStatusOk(s) ==
  /\ At(s, "dr_status")
  /\ signer
  /\ jobs' = UpdateJobStatus(jobs, escrows[CurData(s).escrowId].jobId, "DISPUTED")
  /\ UNCHANGED <<bids, milestones, escrows, disputes, cache, txCount>>
  /\ Goto(s, "dr_select")

\* 3: updateJobStatus(job.id, 'DISPUTED'); 4: throw 'Signer not configured'.
DrStatusNoSigner(s) ==
  /\ At(s, "dr_status")
  /\ ~signer
  /\ jobs' = UpdateJobStatus(jobs, escrows[CurData(s).escrowId].jobId, "DISPUTED")
  /\ UNCHANGED <<bids, milestones, escrows, disputes, cache, txCount, failures>>
  /\ Complete(s, TRUE)

\* 4: requestArbitratorSelection submits selectArbitratorForDispute.
DrSelectOk(s) ==
  /\ At(s, "dr_select")
  /\ txCount' = [txCount EXCEPT ![CurInst(s)] = @ + 1]
  /\ UNCHANGED <<store, cache>>
  /\ Goto(s, "dr_notify")

\* 5-6: notifyDisputeRaised, emitRealTimeUpdate.
DrNotifyOk(s) ==
  /\ At(s, "dr_notify")
  /\ UNCHANGED <<store, cache, txCount, failures>>
  /\ Complete(s, FALSE)

Next ==
  \/ \E e \in EventIds : Deliver(e)
  \/ TickStart
  \/ StepFail
  \/ \E s \in 1..MaxTicks : JcSaveOk(s)
  \/ \E s \in 1..MaxTicks : JcCacheOk(s)
  \/ \E s \in 1..MaxTicks : JcNotifyOk(s)
  \/ \E s \in 1..MaxTicks : BsGetJobFound(s)
  \/ \E s \in 1..MaxTicks : BsGetJobMissing(s)
  \/ \E s \in 1..MaxTicks : BsSaveOk(s)
  \/ \E s \in 1..MaxTicks : BsNotifyOk(s)
  \/ \E s \in 1..MaxTicks : BsCountOk(s)
  \/ \E s \in 1..MaxTicks : McUpdateOk(s)
  \/ \E s \in 1..MaxTicks : McGetJobFound(s)
  \/ \E s \in 1..MaxTicks : McGetJobMissing(s)
  \/ \E s \in 1..MaxTicks : McCheckAll(s)
  \/ \E s \in 1..MaxTicks : McCheckNotAll(s)
  \/ \E s \in 1..MaxTicks : McJobStatusOk(s)
  \/ \E s \in 1..MaxTicks : McNotifyJobOk(s)
  \/ \E s \in 1..MaxTicks : DrGetJobFound(s)
  \/ \E s \in 1..MaxTicks : DrGetJobMissing(s)
  \/ \E s \in 1..MaxTicks : DrSaveOk(s)
  \/ \E s \in 1..MaxTicks : DrStatusOk(s)
  \/ \E s \in 1..MaxTicks : DrStatusNoSigner(s)
  \/ \E s \in 1..MaxTicks : DrSelectOk(s)
  \/ \E s \in 1..MaxTicks : DrNotifyOk(s)

Spec == Init /\ [][Next]_vars

\* One await of the processor running in invocation s resolves.
ProcStep(s) ==
  \/ JcSaveOk(s)
  \/ JcCacheOk(s)
  \/ JcNotifyOk(s)
  \/ BsGetJobFound(s)
  \/ BsGetJobMissing(s)
  \/ BsSaveOk(s)
  \/ BsNotifyOk(s)
  \/ BsCountOk(s)
  \/ McUpdateOk(s)
  \/ McGetJobFound(s)
  \/ McGetJobMissing(s)
  \/ McCheckAll(s)
  \/ McCheckNotAll(s)
  \/ McJobStatusOk(s)
  \/ McNotifyJobOk(s)
  \/ DrGetJobFound(s)
  \/ DrGetJobMissing(s)
  \/ DrSaveOk(s)
  \/ DrStatusOk(s)
  \/ DrStatusNoSigner(s)
  \/ DrSelectOk(s)
  \/ DrNotifyOk(s)

\* The interval keeps firing and every awaited call resolves or throws.
SpecDrain ==
  Init /\ [][Next]_vars /\ WF_vars(TickStart)
       /\ \A s \in 1..MaxTicks : WF_vars(ProcStep(s))

\* ------------------------------------------ ArbitratorManager (selection)
LoadCap == 3
PanelSize == 3
MaxSeed == 31
Regions == {"EU", "US", "ASIA"}

\* The arbitrators table, in the order findMany returns its rows.
ArbitratorTable ==
  << [walletAddress |-> "a1", region |-> "EU", isActive |-> TRUE, currentDisputes |-> 0],
     [walletAddress |-> "a2", region |-> "US", isActive |-> TRUE, currentDisputes |-> 1],
     [walletAddress |-> "a3", region |-> "ASIA", isActive |-> TRUE, currentDisputes |-> 0],
     [walletAddress |-> "a4", region |-> "ASIA", isActive |-> FALSE, currentDisputes |-> 0],
     [walletAddress |-> "a5", region |-> "US", isActive |-> TRUE, currentDisputes |-> 3],
     [walletAddress |-> "a6", region |-> "ASIA", isActive |-> TRUE, currentDisputes |-> 2],
     [walletAddress |-> "a7", region |-> "EU", isActive |-> TRUE, currentDisputes |-> 0] >>
Wallets == {ArbitratorTable[i].walletAddress : i \in 1..Len(ArbitratorTable)}
ArbitratorOf(w) ==
  CHOOSE a \in Range(ArbitratorTable) : a.walletAddress = w

\* The where clause of findMany.
Available(a, excludeRegion) ==
  /\ a.isActive
  /\ a.region # excludeRegion
  /\ a.currentDisputes < LoadCap

\* shuffleArray with the swap written as a plain assignment.
RECURSIVE ShuffleFromOverwrite(_, _, _)
ShuffleFromOverwrite(result, currentIndex, seed) ==
  IF currentIndex = 0
  THEN result
  ELSE LET randomIndex == seed % currentIndex
           ci == currentIndex - 1
       IN ShuffleFromOverwrite([result EXCEPT ![ci + 1] = result[randomIndex + 1]],
                               ci, seed \div 2)

\* shuffleArray: one pass of the while loop for each position, from the last.
RECURSIVE ShuffleFrom(_, _, _)
ShuffleFrom(result, currentIndex, seed) ==
  IF currentIndex = 0
  THEN result
  ELSE LET randomIndex == seed % currentIndex
           ci == currentIndex - 1
       IN ShuffleFrom([result EXCEPT ![ci + 1] = result[randomIndex + 1],
                                     ![randomIndex + 1] = result[ci + 1]],
                      ci, seed \div 2)
ShuffleArray(array, seed) == ShuffleFrom(array, Len(array), seed)

\* selectArbitrators: filter, shuffle by the random seed, take the first three.
SelectArbitrators(table, excludeRegion, seed) ==
  LET availableArbitrators == SelectSeq(table, LAMBDA a : Available(a, excludeRegion))
      shuffled == ShuffleArray(availableArbitrators, seed)
      selected == SubSeq(shuffled, 1, Min(PanelSize, Len(shuffled)))
  IN [i \in 1..Len(selected) |-> selected[i].walletAddress]

\* The rows of the table whose wallet is in ws, in table order.
Registered(ws) == SelectSeq(ArbitratorTable, LAMBDA a : a.walletAddress \in ws)

\* A dispute between a client and a freelancer asks for a panel; the caller
\* names the region to exclude.
RequestSelection ==
  /\ sel.phase = "none"
  /\ \E ws \in SUBSET Wallets, cr \in Regions, fr \in Regions, seed \in 0..MaxSeed :
       \E ex \in {cr, fr} :
         sel' = [phase |-> "requested", table |-> Registered(ws), clientRegion |-> cr,
                 freelancerRegion |-> fr, excludeRegion |-> ex, seed |-> seed,
                 panel |-> <<>>]
  /\ UNCHANGED <<queue, typesOrder, slots, delivered, failures, signer, store, cache,
                 txCount, hist, conn, chain, api, factory, vault, front>>

Select ==
  /\ sel.phase = "requested"
  /\ sel' = [sel EXCEPT !.phase = "selected",
                        !.panel = SelectArbitrators(sel.table, sel.excludeRegion, sel.seed)]
  /\ UNCHANGED <<queue, typesOrder, slots, delivered, failures, signer, store, cache,
                 txCount, hist, conn, chain, api, factory, vault, front>>

InitSel ==
  /\ PipelineInit(CHOOSE st \in InitStores : st.job = NoJob, TRUE)
  /\ sel = NoSelection

NextSel == RequestSelection \/ Select

SpecSel == InitSel /\ [][NextSel]_vars

\* ------------------------------------------------- shuffleArray (orderings)
\* The wallets of the first n rows of the table, as a pool to shuffle.
PoolOf(n) == [k \in 1..n |-> ArbitratorTable[k].walletAddress]

\* An auditor names an ordering of a pool ...
AskOrdering ==
  /\ sel.phase = "none"
  /\ \E n \in 1..Min(MaxPool, Len(ArbitratorTable)) : \E p \in Permutations(1..n) :
       sel' = [phase |-> "ordering", pool |-> PoolOf(n),
               target |-> [k \in 1..n |-> PoolOf(n)[p[k]]], found |-> FALSE]
  /\ UNCHANGED <<queue, typesOrder, slots, delivered, failures, signer, store, cache,
                 txCount, hist, conn, chain, api, factory, vault, front>>

\* ... and every random value is tried for a shuffle that returns it.
SearchSeed ==
  /\ sel.phase = "ordering"
  /\ sel' = [sel EXCEPT !.phase = "searched",
                        !.found = \E seed \in 0..MaxShuffleSeed :
                                    ShuffleArray(sel.pool, seed) = sel.target]
  /\ UNCHANGED <<queue, typesOrder, slots, delivered, failures, signer, store, cache,
                 txCount, hist, conn, chain, api, factory, vault, front>>

NextShuffle == AskOrdering \/ SearchSeed

SpecShuffle == InitSel /\ [][NextShuffle]_vars

\* ----------------------------------------- provider events and reconnection
\* The test of handleReconnection.
ShouldReconnectOffByOne(attempts) == attempts <= MaxReconnectAttempts
ShouldReconnect(attempts) == attempts < MaxReconnectAttempts

\* handleReconnection: count the attempt and schedule initializeProvider, or
\* log 'Max reconnection attempts reached'.
HandleReconnection(c) ==
  IF ShouldReconnect(c.reconnectAttempts)
  THEN [c EXCEPT !.reconnectAttempts = @ + 1, !.timers = @ + 1, !.sinceConnect = @ + 1]
  ELSE [c EXCEPT !.reported = @ + 1]

Emitted(c, kind) == [c EXCEPT !.events = @ + 1, !.last = kind]

ConnFrame ==
  UNCHANGED <<queue, typesOrder, slots, delivered, failures, signer, store, cache,
              txCount, hist, sel, chain, api, factory, vault, front>>

\* provider.on('connect')
OnConnect ==
  /\ conn.events < MaxConnEvents
  /\ \E p \in 1..Len(conn.sockets) :
       /\ conn.sockets[p] = "connecting"
       /\ conn' = [Emitted(conn, "connect") EXCEPT !.isConnected = TRUE,
                                                   !.reconnectAttempts = 0,
                                                   !.sinceConnect = 0,
                                                   !.sockets[p] = "open"]
  /\ ConnFrame

\* provider.on('disconnect')
OnDisconnect ==
  /\ conn.events < MaxConnEvents
  /\ \E p \in 1..Len(conn.sockets) :
       /\ conn.sockets[p] # "closed"
       /\ conn' = HandleReconnection([Emitted(conn, "disconnect")
                                        EXCEPT !.isConnected = FALSE,
                                               !.sockets[p] = "closed"])
  /\ ConnFrame

\* provider.on('error')
OnError ==
  /\ conn.events < MaxConnEvents
  /\ conn' = HandleReconnection(Emitted(conn, "error"))
  /\ ConnFrame

\* The setTimeout callback of handleReconnection: initializeProvider creates a
\* new provider and registers the three handlers on it.
ReconnectTimer ==
  /\ conn.timers > 0
  /\ conn' = [conn EXCEPT !.timers = @ - 1, !.last = "timer",
                          !.sockets = Append(@, "connecting")]
  /\ ConnFrame

NextConn == OnConnect \/ OnDisconnect \/ OnError \/ ReconnectTimer

SpecConn == InitSel /\ [][NextConn]_vars

\* The provider the contract bindings and the event listeners are attached to:
\* initializeContracts and setupEventListeners run once, in the constructor.
ListenerProvider == 1
SubscriptionLive(c) == c.sockets[ListenerProvider] = "open"

\* The ledger emits event e and the subscription delivers it to its handler.
EmitDelivered(e) ==
  /\ SubscriptionLive(conn)
  /\ Deliver(e)

\* The ledger emits an event while the provider that carries the listeners
\* has no open socket: no handler is called.
EmitMissed ==
  /\ ~SubscriptionLive(conn)
  /\ conn.missed < MaxMissed
  /\ conn' = [conn EXCEPT !.missed = @ + 1]
  /\ ConnFrame

NextSub == NextConn \/ (\E e \in EventIds : EmitDelivered(e)) \/ EmitMissed

SpecSub == InitSel /\ [][NextSub]_vars

\* ------------------------------------------------- the job contract (bids)
Freelancers == {"F1", "F2", "F3"}

HasActiveBid(c, f) ==
  \E k \in 1..Len(c.bids) : c.bids[k].freelancer = f /\ c.bids[k].status = "ACTIVE"

ChainFrame ==
  UNCHANGED <<queue, typesOrder, slots, delivered, failures, signer, store, cache,
              txCount, hist, sel, conn, api, factory, vault, front>>

\* submitBid: the job is OPEN and the freelancer has no ACTIVE bid on it.
ContractSubmitBid(f) ==
  /\ chain.status = "OPEN"
  /\ Len(chain.bids) < MaxBids
  /\ ~HasActiveBid(chain, f)
  /\ chain' = [chain EXCEPT !.bids = Append(@, [freelancer |-> f, status |-> "ACTIVE"])]
  /\ ChainFrame

\* withdrawBid
ContractWithdrawBid(k) ==
  /\ chain.bids[k].status = "ACTIVE"
  /\ chain' = [chain EXCEPT !.bids[k].status = "WITHDRAWN"]
  /\ ChainFrame

\* rejectBid
ContractRejectBid(k) ==
  /\ chain.bids[k].status = "ACTIVE"
  /\ chain' = [chain EXCEPT !.bids[k].status = "REJECTED"]
  /\ ChainFrame

\* The requirements of acceptBid.
CanAcceptBidAnyJobStatus(c, k) == c.bids[k].status = "ACTIVE"
CanAcceptBid(c, k) == c.status = "OPEN" /\ c.bids[k].status = "ACTIVE"

\* acceptBid: the bid becomes ACCEPTED, its ACTIVE siblings REJECTED, the job
\* IN_PROGRESS.
ContractAcceptBid(k) ==
  /\ CanAcceptBid(chain, k)
  /\ chain' = [status |-> "IN_PROGRESS",
               bids |-> [n \in 1..Len(chain.bids) |->
                           IF n = k THEN [chain.bids[n] EXCEPT !.status = "ACCEPTED"]
                           ELSE IF chain.bids[n].status = "ACTIVE"
                                THEN [chain.bids[n] EXCEPT !.status = "REJECTED"]
                                ELSE chain.bids[n]]]
  /\ ChainFrame

\* cancelJob
ContractCancelJob ==
  /\ chain.status = "OPEN"
  /\ chain' = [chain EXCEPT !.status = "CANCELLED"]
  /\ ChainFrame

NextJob ==
  \/ \E f \in Freelancers : ContractSubmitBid(f)
  \/ \E k \in 1..Len(chain.bids) : ContractWithdrawBid(k)
  \/ \E k \in 1..Len(chain.bids) : ContractRejectBid(k)
  \/ \E k \in 1..Len(chain.bids) : ContractAcceptBid(k)
  \/ ContractCancelJob

SpecJob == InitSel /\ [][NextJob]_vars

\* --------------------------------------- createJob / submitBid / acceptBid
\* if (!this.signer) throw new Error('Signer not configured')
SignerAssumed(sg) == TRUE
SignerConfigured(sg) == sg

\* The contract call of the method: the provider accepts the transaction and
\* the method returns it (sent = TRUE), or the call rejects and the method
\* throws (sent = FALSE).
SubmitTransaction(op, sent) ==
  /\ api.calls < MaxCalls
  /\ api' = IF ~SignerConfigured(signer)
            THEN [api EXCEPT !.calls = @ + 1,
                             !.last = [op |-> op, result |-> "Signer not configured"]]
            ELSE IF sent
            THEN [pending |-> Append(api.pending, op), calls |-> api.calls + 1,
                  last |-> [op |-> op, result |-> "tx"]]
            ELSE [api EXCEPT !.calls = @ + 1,
                             !.last = [op |-> op, result |-> "rejected"]]
  /\ UNCHANGED <<queue, typesOrder, slots, delivered, failures, signer, store, cache,
                 txCount, hist, sel, conn, chain, factory, vault, front>>

CreateJob == \E sent \in BOOLEAN : SubmitTransaction("createJob", sent)
SubmitBid == \E sent \in BOOLEAN : SubmitTransaction("submitBid", sent)
AcceptBid == \E sent \in BOOLEAN : SubmitTransaction("acceptBid", sent)

NextApi == CreateJob \/ SubmitBid \/ AcceptBid \/ Next

SpecApi == Init /\ [][NextApi]_vars

\* ------------------------------------------------------------- JobFactory
Now == 5
RECURSIVE SumSeq(_)
SumSeq(q) == IF q = <<>> THEN 0 ELSE Head(q) + SumSeq(Tail(q))

\* The requests the callers make: one whose parameters pass every check, and
\* one for each check that differs from it in the parameter the check reads.
ValidRequest == [ipfsHash |-> "Qm", totalBudget |-> 1000,
                 milestoneAmounts |-> <<600, 400>>, milestoneDeadlines |-> <<10, 20>>,
                 value |-> 1]
JobRequests ==
  { ValidRequest,
    [ValidRequest EXCEPT !.ipfsHash = ""],
    [ValidRequest EXCEPT !.totalBudget = 0],
    [ValidRequest EXCEPT !.milestoneAmounts = <<>>],
    [ValidRequest EXCEPT !.milestoneDeadlines = <<10>>],
    [ValidRequest EXCEPT !.milestoneDeadlines = <<5, 20>>],
    [ValidRequest EXCEPT !.milestoneAmounts = <<600, 300>>],
    [ValidRequest EXCEPT !.value = 0] }
EscrowRequests ==
  { [totalAmount |-> 1000, milestoneAmounts |-> <<600, 400>>],
    [totalAmount |-> 1000, milestoneAmounts |-> <<600, 300>>] }
Senders == FactoryClients \cup {"O"}

\* if (milestoneSum != totalBudget) revert MilestoneMismatch
MilestoneMismatchSkipped(totalBudget, milestoneAmounts) == FALSE
MilestoneMismatch(totalBudget, milestoneAmounts) ==
  SumSeq(milestoneAmounts) # totalBudget

\* _validateJobCreation: the error it reverts with, "none" when it returns.
ValidateJobCreation(ipfsHash, totalBudget, milestoneAmounts, milestoneDeadlines) ==
  IF ipfsHash = "" THEN "InvalidIPFSHash"
  ELSE IF totalBudget < MIN_JOB_BUDGET \/ totalBudget > MAX_JOB_BUDGET THEN "InvalidBudget"
  ELSE IF Len(milestoneAmounts) = 0 \/ Len(milestoneAmounts) > MAX_MILESTONES
       THEN "InvalidMilestones"
  ELSE IF Len(milestoneAmounts) # Len(milestoneDeadlines) THEN "InvalidMilestones"
  ELSE IF \E i \in 1..Len(milestoneDeadlines) : milestoneDeadlines[i] <= Now
       THEN "DeadlineInPast"
  ELSE IF MilestoneMismatch(totalBudget, milestoneAmounts) THEN "MilestoneMismatch"
  ELSE "none"

\* modifier onlyAuthorizedClient
IsAuthorizedClient(f, sender) ==
  sender = "O" \/ (sender \in FactoryClients /\ f.authorizedClients[sender])

\* if (clientJobCount[msg.sender] >= MAX_JOBS_PER_CLIENT) revert TooManyJobs
AtJobLimitOffByOne(count) == count > MAX_JOBS_PER_CLIENT
AtJobLimit(count) == count >= MAX_JOBS_PER_CLIENT

\* The error createJob reverts with, in the order of its checks.
CreateJobError(f, sender, ipfsHash, totalBudget, milestoneAmounts, milestoneDeadlines, value) ==
  IF ~IsAuthorizedClient(f, sender) THEN "UnauthorizedClient"
  ELSE IF f.paused THEN "Pausable: paused"
  ELSE LET v == ValidateJobCreation(ipfsHash, totalBudget, milestoneAmounts,
                                    milestoneDeadlines)
       IN IF v # "none" THEN v
          ELSE IF value < JOB_CREATION_FEE THEN "InsufficientFee"
          ELSE IF AtJobLimit(f.clientJobCount[sender]) THEN "TooManyJobs"
          ELSE "none"

FactoryFrame ==
  UNCHANGED <<queue, typesOrder, slots, delivered, failures, signer, store, cache,
              txCount, hist, sel, conn, chain, api, vault, front>>

\* createJob: a revert leaves the storage as it was; otherwise the job
\* contract is cloned, initialized and registered under the next job id.
FactoryCreateJob ==
  /\ \E sender \in Senders, rq \in JobRequests :
       LET totalBudget == rq.totalBudget
           milestoneAmounts == rq.milestoneAmounts
           err == CreateJobError(factory, sender, rq.ipfsHash, totalBudget,
                                 milestoneAmounts, rq.milestoneDeadlines, rq.value)
           call == [op |-> "createJob", error |-> err, sender |-> sender,
                    sumMatches |-> SumSeq(milestoneAmounts) = totalBudget]
       IN IF err # "none"
          THEN factory' = [factory EXCEPT !.last = call]
          ELSE /\ factory.jobCounter < MaxJobs
               /\ factory' =
                    [factory EXCEPT
                       !.jobCounter = @ + 1,
                       !.jobs = Append(@, factory.jobCounter + 1),
                       !.clientJobCount[sender] = @ + 1,
                       !.last = call @@
                                [total |-> totalBudget, amounts |-> milestoneAmounts]]
  /\ FactoryFrame

\* _isValidJobContract: the loop over jobs[1..jobCounter].
IsValidJobContract(f, contractAddress) ==
  \E i \in 1..f.jobCounter : f.jobs[i] = contractAddress

\* IEscrowContract.initialize rejects milestone amounts that do not add up to
\* the total amount.
EscrowInitializeError(totalAmount, milestoneAmounts) ==
  IF SumSeq(milestoneAmounts) # totalAmount THEN "MilestoneMismatch" ELSE "none"

\* The error createEscrow reverts with.
CreateEscrowError(f, jobContract, totalAmount, milestoneAmounts) ==
  IF f.paused THEN "Pausable: paused"
  ELSE IF ~IsValidJobContract(f, jobContract) THEN "Invalid job contract"
  ELSE EscrowInitializeError(totalAmount, milestoneAmounts)

\* createEscrow, called by any address: the job contract of job 1 (address 1)
\* or an address that is no job contract (address 0).
FactoryCreateEscrow ==
  /\ \E caller \in {0, 1}, jobContract \in {1, 99}, rq \in EscrowRequests :
       LET totalAmount == rq.totalAmount
           milestoneAmounts == rq.milestoneAmounts
           err == CreateEscrowError(factory, jobContract, totalAmount, milestoneAmounts)
           call == [op |-> "createEscrow", error |-> err, sender |-> "none",
                    sumMatches |-> SumSeq(milestoneAmounts) = totalAmount,
                    caller |-> caller]
       IN factory' = [factory EXCEPT
                        !.last = IF err # "none" THEN call
                                 ELSE call @@ [total |-> totalAmount,
                                               amounts |-> milestoneAmounts]]
  /\ FactoryFrame

\* setClientAuthorization (onlyOwner)
SetClientAuthorization ==
  /\ \E client \in FactoryClients, authorized \in BOOLEAN :
       factory' = [factory EXCEPT !.authorizedClients[client] = authorized,
                                  !.last = [NoCall EXCEPT !.op = "setClientAuthorization"]]
  /\ FactoryFrame

\* pause / unpause (onlyOwner)
Pause ==
  /\ ~factory.paused
  /\ factory' = [factory EXCEPT !.paused = TRUE, !.last = [NoCall EXCEPT !.op = "pause"]]
  /\ FactoryFrame
Unpause ==
  /\ factory.paused
  /\ factory' = [factory EXCEPT !.paused = FALSE, !.last = [NoCall EXCEPT !.op = "unpause"]]
  /\ FactoryFrame

NextFactory ==
  FactoryCreateJob \/ FactoryCreateEscrow \/ SetClientAuthorization \/ Pause \/ Unpause

SpecFactory == InitSel /\ [][NextFactory]_vars

\* ---------------------------------------------------------- VerifiedEscrow
\* uint256 arithmetic of Solidity 0.8: a result outside 0..MaxUint reverts.
InRange(x) == x >= 0 /\ x <= MaxUint

RECURSIVE SumOf(_, _)
SumOf(f, S) == IF S = {} THEN 0
               ELSE LET j == CHOOSE k \in S : TRUE IN f[j] + SumOf(f, S \ {j})

VaultFrame ==
  UNCHANGED <<queue, typesOrder, slots, delivered, failures, signer, store, cache,
              txCount, hist, sel, conn, chain, api, factory, front>>

Reverted(v, op, why) == [v EXCEPT !.last = [op |-> op, result |-> why]]

\* deposit(_jobId, _amount) payable
Deposit ==
  /\ \E _jobId \in VaultJobs, _amount \in 0..MaxUint, value \in 0..MaxUint :
       /\ value \in {_amount, _amount + 1}
       /\ vault' =
            IF value # _amount THEN Reverted(vault, "deposit", "Value mismatch")
            ELSE IF ~InRange(vault.balance + value)
                    \/ ~InRange(vault.escrows[_jobId] + _amount)
                    \/ ~InRange(vault.totalEscrowBalance + _amount)
            THEN Reverted(vault, "deposit", "overflow")
            ELSE [escrows |-> [vault.escrows EXCEPT ![_jobId] = @ + _amount],
                  totalEscrowBalance |-> vault.totalEscrowBalance + _amount,
                  balance |-> vault.balance + value,
                  last |-> [op |-> "deposit", result |-> "ok"]]
  /\ VaultFrame

\* totalEscrowBalance -= _amount
TotalAfterWithdrawKept(total, _amount) == total
TotalAfterWithdraw(total, _amount) == total - _amount

\* withdraw(_jobId, _amount); the transfer reverts the call when the caller
\* does not accept the payment.
Withdraw ==
  /\ \E _jobId \in VaultJobs, _amount \in 0..MaxUint, accepts \in BOOLEAN :
       vault' =
         IF ~(vault.escrows[_jobId] >= _amount)
         THEN Reverted(vault, "withdraw", "Insufficient escrow")
         ELSE IF ~InRange(TotalAfterWithdraw(vault.totalEscrowBalance, _amount))
         THEN Reverted(vault, "withdraw", "underflow")
         ELSE IF ~accepts \/ vault.balance < _amount
         THEN Reverted(vault, "withdraw", "transfer failed")
         ELSE [escrows |-> [vault.escrows EXCEPT ![_jobId] = @ - _amount],
               totalEscrowBalance |->
                 TotalAfterWithdraw(vault.totalEscrowBalance, _amount),
               balance |-> vault.balance - _amount,
               last |-> [op |-> "withdraw", result |-> "ok"]]
  /\ VaultFrame

NextVault == Deposit \/ Withdraw

SpecVault == InitSel /\ [][NextVault]_vars

\* ------------------------------------------- the subscription's handlers
\* handleBidSubmitted and handleMilestoneCompleted decode the raw log before
\* their first await; handleJobCreated and handleDisputeRaised get decoded
\* arguments.
DecodesLog(e) == EventData(e).type \in {"bidSubmitted", "milestoneCompleted"}

IngestFrame ==
  UNCHANGED <<slots, failures, signer, store, cache, txCount, fails, requeues, applied,
              dropped, partial, ahead, sel, conn, chain, api, factory, vault, wallet>>

\* The subscription calls the handler of event e: the handler builds the event
\* data up to its await of getBlockTimestamp.
Receive(e) ==
  /\ TotalDelivered < MaxDeliveries
  /\ delivered' = [delivered EXCEPT ![e] = @ + 1]
  /\ ingest' = [ingest EXCEPT !.pending = @ \cup {<<e, delivered[e] + 1>>},
                              !.received = Append(@, <<e, delivered[e] + 1>>)]
  /\ UNCHANGED <<queue, typesOrder, enqSeq>>
  /\ IngestFrame

\* parseLog throws: the catch block of the handler logs the error and returns.
ReceiveUndecodable(e) ==
  /\ DecodesLog(e)
  /\ TotalDelivered < MaxDeliveries
  /\ delivered' = [delivered EXCEPT ![e] = @ + 1]
  /\ ingest' = [ingest EXCEPT !.lost = @ \cup {<<e, delivered[e] + 1>>},
                              !.received = Append(@, <<e, delivered[e] + 1>>)]
  /\ UNCHANGED <<queue, typesOrder, enqSeq>>
  /\ IngestFrame

\* getBlockTimestamp resolved (from the cache, or from the provider after a
\* cache miss): the handler puts the event on the queue of its type.  The
\* lookups of the running handlers resolve in any order.
LookupOk(i) ==
  /\ i \in ingest.pending
  /\ queue' = AddToProcessingQueue(queue, EventData(i[1]).type,
                                   [ev |-> i[1], d |-> i[2], retryCount |-> 0])
  /\ typesOrder' = AddKey(typesOrder, EventData(i[1]).type)
  /\ enqSeq' = Append(enqSeq, i)
  /\ ingest' = [ingest EXCEPT !.pending = @ \ {i}]
  /\ UNCHANGED delivered
  /\ IngestFrame

\* getBlockTimestamp threw (cache or provider error): the catch block of the
\* handler logs the error and returns.
LookupFail(i) ==
  /\ i \in ingest.pending
  /\ ingest' = [ingest EXCEPT !.pending = @ \ {i}, !.lost = @ \cup {i}]
  /\ UNCHANGED <<queue, typesOrder, enqSeq, delivered>>
  /\ IngestFrame

NextIngest ==
  \/ \E e \in EventIds : Receive(e)
  \/ \E e \in EventIds : ReceiveUndecodable(e)
  \/ \E i \in Instances : LookupOk(i)
  \/ \E i \in Instances : LookupFail(i)

SpecIngest == InitSel /\ [][NextIngest]_vars

\* -------------------------------------------------------------- Web3Service
SupportedChainIds == {1, 5, 137, 80001}
\* The chains addNetwork has a configuration for.
AddableChainIds == {137, 80001}
\* The chains the user's wallet can be on: a supported one and one that is
\* not.
WalletChains == {137, 56}
Accounts == {"a1", "a2"}

IsConnected(w) == w.provider /\ w.currentAccount # "none"

\* validateNetwork returns (TRUE) or throws (FALSE).
ValidNetwork(chainId) == chainId # 0 /\ chainId \in SupportedChainIds

\* initializeContracts: if (!this.provider) return.
InitializeContracts(w) == IF w.provider THEN [w EXCEPT !.contracts = TRUE] ELSE w

Emit(w, ev, h) == [w EXCEPT !.emitted = [event |-> ev, hash |-> h]]
Called(w, op, result) == [w EXCEPT !.call = [op |-> op, result |-> result]]

WalletFrame ==
  UNCHANGED <<queue, typesOrder, slots, delivered, failures, signer, store, cache,
              txCount, hist, sel, conn, chain, api, factory, vault, ingest>>

\* connectWallet; a throw leaves the fields as they are at the throw.
ConnectWallet ==
  /\ \E hasWallet \in BOOLEAN, account \in Accounts \cup {"none"},
        networkKnown \in BOOLEAN, chainId \in WalletChains :
       wallet' =
         IF ~hasWallet \/ account = "none"
         THEN Called(wallet, "connectWallet", "failed")
         ELSE LET w1 == [wallet EXCEPT !.provider = TRUE, !.signer = TRUE,
                                       !.currentAccount = account]
                  w2 == [w1 EXCEPT !.currentChainId = chainId]
              IN IF ~networkKnown THEN Called(w1, "connectWallet", "failed")
                 ELSE IF ~ValidNetwork(chainId)
                 THEN Called(w2, "connectWallet", "failed")
                 ELSE Called(Emit([InitializeContracts(w2) EXCEPT !.listening = TRUE],
                                  "walletConnected", "none"),
                             "connectWallet", "ok")
  /\ WalletFrame

\* The body of disconnectWallet.
Disconnected(w) ==
  Emit([w EXCEPT !.provider = FALSE, !.signer = FALSE, !.contracts = FALSE,
                 !.currentAccount = "none", !.currentChainId = 0,
                 !.pendingTransactions = [h \in TxHashes |-> "none"],
                 !.cleared = TRUE],
       "walletDisconnected", "none")

DisconnectWallet ==
  /\ wallet' = Called(Disconnected(wallet), "disconnectWallet", "ok")
  /\ WalletFrame

\* switchNetwork, and addNetwork when the wallet does not know the chain
\* (error 4902).
SwitchNetwork ==
  /\ \E chainId \in WalletChains, answer \in {"switched", "unknown", "rejected"} :
       wallet' =
         IF answer = "switched"
         THEN Called(Emit(InitializeContracts([wallet EXCEPT !.currentChainId = chainId]),
                          "networkChanged", "none"),
                     "switchNetwork", "ok")
         ELSE IF answer = "unknown" /\ chainId \in AddableChainIds
         THEN Called(InitializeContracts([wallet EXCEPT !.currentChainId = chainId]),
                     "switchNetwork", "ok")
         ELSE Called(wallet, "switchNetwork", "failed")
  /\ WalletFrame

\* window.ethereum.on('chainChanged')
ChainChanged ==
  /\ wallet.listening
  /\ \E chainId \in WalletChains :
       wallet' = Called(Emit(InitializeContracts([wallet EXCEPT !.currentChainId = chainId]),
                             "networkChanged", "none"),
                        "chainChanged", "ok")
  /\ WalletFrame

\* window.ethereum.on('accountsChanged')
AccountsChanged ==
  /\ wallet.listening
  /\ \E account \in Accounts \cup {"none"} :
       wallet' =
         Called(IF account = "none" THEN Disconnected(wallet)
                ELSE IF account # wallet.currentAccount
                THEN Emit([wallet EXCEPT !.currentAccount = account],
                          "accountChanged", "none")
                ELSE wallet,
                "accountsChanged", "ok")
  /\ WalletFrame

\* createJob / submitBid / ...: the connection check passed and the call
\* awaits the wallet's answer.
BeginTransaction(h) ==
  /\ h \notin wallet.sent
  /\ wallet.contracts /\ wallet.signer
  /\ wallet' = Called([wallet EXCEPT !.sending = @ \cup {h}, !.sent = @ \cup {h}],
                      "submit", "pending")
  /\ WalletFrame

\* The contract call threw: nothing is tracked.
TransactionRejected(h) ==
  /\ h \in wallet.sending
  /\ wallet' = Called([wallet EXCEPT !.sending = @ \ {h}], "submit", "failed")
  /\ WalletFrame

\* The contract call returned the transaction: trackTransaction.
TrackTransaction(h) ==
  /\ h \in wallet.sending
  /\ wallet' = Called([wallet EXCEPT
                         !.sending = @ \ {h},
                         !.pendingTransactions[h] = "PENDING",
                         !.cleared = FALSE,
                         !.waits = IF wallet.provider THEN @ \cup {h} ELSE @],
                      "submit", "ok")
  /\ WalletFrame

\* waitForTransaction resolved with a receipt: the then callback.
WaitResolved(h) ==
  /\ h \in wallet.waits
  /\ \E status \in {0, 1} :
       wallet' =
         Called(Emit([wallet EXCEPT
                        !.waits = @ \ {h},
                        !.pendingTransactions[h] =
                          IF status = 1 THEN "CONFIRMED" ELSE "FAILED",
                        !.timers = @ \cup {h}],
                     IF status = 1 THEN "transactionConfirmed" ELSE "transactionFailed",
                     h),
                "then", "ok")
  /\ WalletFrame

\* waitForTransaction rejected: the catch callback.
WaitRejected(h) ==
  /\ h \in wallet.waits
  /\ wallet' = Called(Emit([wallet EXCEPT !.waits = @ \ {h},
                                          !.pendingTransactions[h] = "FAILED"],
                           "transactionFailed", h),
                      "catch", "ok")
  /\ WalletFrame

\* The 10 s timer set by the then callback.
RemoveTimer(h) ==
  /\ h \in wallet.timers
  /\ wallet' = Called([wallet EXCEPT !.timers = @ \ {h},
                                     !.pendingTransactions[h] = "none"],
                      "timer", "ok")
  /\ WalletFrame

NextWallet ==
  \/ ConnectWallet
  \/ DisconnectWallet
  \/ SwitchNetwork
  \/ ChainChanged
  \/ AccountsChanged
  \/ \E h \in TxHashes : BeginTransaction(h)
  \/ \E h \in TxHashes : TransactionRejected(h)
  \/ \E h \in TxHashes : TrackTransaction(h)
  \/ \E h \in TxHashes : WaitResolved(h)
  \/ \E h \in TxHashes : WaitRejected(h)
  \/ \E h \in TxHashes : RemoveTimer(h)

SpecWallet == InitSel /\ [][NextWallet]_vars

\* Every pending contract call, wait and timer of the wallet service completes.
SpecWalletFair ==
  /\ InitSel /\ [][NextWallet]_vars
  /\ \A h \in TxHashes :
       /\ WF_vars(TransactionRejected(h) \/ TrackTransaction(h))
       /\ WF_vars(WaitResolved(h) \/ WaitRejected(h))
       /\ WF_vars(RemoveTimer(h))

\* ----------------------------------------------------------------- claims
InQueue(i) ==
  \E t \in EventTypes : \E k \in 1..Len(queue[t]) :
    <<queue[t][k].ev, queue[t][k].d>> = i
InBatch(i) ==
  \E s \in 1..MaxTicks : \E k \in 1..Len(slots[s].batch) :
    <<slots[s].batch[k].ev, slots[s].batch[k].d>> = i
Enqueued(i) == i[2] <= delivered[i[1]]
KeyApplied(e) == \E d \in 1..MaxDeliveries : applied[<<e, d>>] > 0

\* C1: processing an event whose (transactionHash, logIndex) key has already
\* been applied changes no entity of the durable store and not the cached
\* bid count.
IdempotentReplay ==
  [][\A s \in 1..MaxTicks :
       (Busy(s) /\ slots'[s] # slots[s] /\ KeyApplied(Cur(s).ev))
         => (store' = store /\ bidCount' = bidCount)]_vars

\* C2: an event whose processing fails on every attempt is re-enqueued for
\* retry exactly 3 times: the number of re-enqueues is the number of failed
\* attempts up to 3, there is no fifth attempt, and after the fourth failure
\* (the third retry) the event is in no queue and no batch.
RetryBound ==
  \A i \in Instances :
    /\ requeues[i] = Min(fails[i], 3)
    /\ fails[i] <= 4
    /\ fails[i] = 4 => (~InQueue(i) /\ ~InBatch(i))
RetryBoundWitness ==
  \E i \in Instances :
    fails[i] = 4 /\ requeues[i] = 3 /\ applied[i] = 0 /\ ~InQueue(i) /\ ~InBatch(i)

\* The catch block keeps no dead-letter list.
DeadLetter == {}

\* C3: every event ever enqueued is still queued (or in the batch being
\* drained), or was successfully applied, or is in the dead-letter list.
NeverSilentlyDropped ==
  \A i \in Instances :
    Enqueued(i) => (InQueue(i) \/ InBatch(i) \/ applied[i] > 0 \/ i \in DeadLetter)

\* C4: no processing attempt that fails leaves behind a store change, cache
\* update or submitted transaction it had made.
AllOrNothing == partial = {}

\* C5: no selected arbitrator has the region of the client or of the
\* freelancer.
GeographicFairness ==
  sel.phase = "selected" =>
    \A k \in 1..Len(sel.panel) :
      ArbitratorOf(sel.panel[k]).region \notin {sel.clientRegion, sel.freelancerRegion}

\* C6: the arbitrator-selection transaction is submitted at most once per
\* DisputeRaised event object, retries included.
NoAutoResubmit == \A i \in Instances : txCount[i] <= 1

\* C7: no two events that concern the same Job or the same Escrow are being
\* processed at the same time.
Entities(e) == {EventData(e).jobId, EventData(e).escrowId} \ {"none"}
PerEntitySerialization ==
  \A s1, s2 \in 1..MaxTicks :
    (s1 # s2 /\ Busy(s1) /\ Busy(s2))
      => Entities(Cur(s1).ev) \cap Entities(Cur(s2).ev) = {}

\* C8: once a Job's stored status is COMPLETED or CANCELLED, no step of
\* processing a DisputeRaised or MilestoneCompleted event changes that status.
TerminalAbsorbing ==
  [][\A s \in 1..MaxTicks :
       (Busy(s) /\ slots'[s] # slots[s]
          /\ CurData(s).type \in {"disputeRaised", "milestoneCompleted"})
         => \A j \in JobIds :
              jobs[j].status \in {"COMPLETED", "CANCELLED"}
                => jobs'[j].status = jobs[j].status]_vars

\* C9: a milestone becomes COMPLETED (released) only from APPROVED with at
\* least 2 release approvals.
ReleasedOnlyFromApproved ==
  [][\A x \in EscrowIds : \A i \in DOMAIN milestones[x] :
       (milestones'[x][i].status = "COMPLETED" /\ milestones[x][i].status # "COMPLETED")
         => (milestones[x][i].status = "APPROVED" /\ milestones[x][i].approvalCount >= 2)]_vars

\* C10: releasedAmount + disputedAmount <= totalAmount for every Escrow.
EscrowConservation ==
  \A x \in EscrowIds :
    escrows[x].releasedAmount + escrows[x].disputedAmount <= escrows[x].totalAmount

\* C12: the store holds at most one ACTIVE bid per (jobId, freelancer) pair,
\* whatever BidSubmitted events were delivered, redelivered or retried.
OneActiveBidPerFreelancer ==
  \A k1, k2 \in 1..Len(bids) :
    (k1 # k2 /\ bids[k1].jobId = bids[k2].jobId
       /\ bids[k1].freelancer = bids[k2].freelancer)
      => ~(bids[k1].status = "ACTIVE" /\ bids[k2].status = "ACTIVE")

Processing(i) == \E s \in 1..MaxTicks : Busy(s) /\ CurInst(s) = i
Begun(i) == Processing(i) \/ applied[i] > 0 \/ fails[i] > 0

\* C13: for events A and B of one type enqueued in that order, neither of
\* them retried, processing of B has begun only if processing of A has
\* completed.
FifoWithinType ==
  \A a, b \in 1..Len(enqSeq) :
    (a < b /\ EventData(enqSeq[a][1]).type = EventData(enqSeq[b][1]).type
       /\ requeues[enqSeq[a]] = 0 /\ requeues[enqSeq[b]] = 0 /\ Begun(enqSeq[b]))
      => applied[enqSeq[a]] > 0

\* C14 as stated: no event object is processed more than 3 times, and after
\* its 3rd failed attempt it is in no queue.
LeavesRetryAfterThree ==
  \A i \in Instances :
    /\ applied[i] + fails[i] <= 3
    /\ fails[i] >= 3 => ~InQueue(i)

\* C14 as amended: no event object is processed more than 4 times (the first
\* attempt and 3 retries), and after its 4th failed attempt it is in no queue.
LeavesRetryAfterFour ==
  \A i \in Instances :
    /\ applied[i] + fails[i] <= MaxRetries + 1
    /\ fails[i] >= MaxRetries + 1 => ~InQueue(i)
LeavesRetryAfterFourWitness ==
  \E i \in Instances :
    /\ applied[i] + fails[i] = MaxRetries + 1
    /\ fails[i] = MaxRetries + 1
    /\ ~InQueue(i)

\* The processor of slot s is about to find that the parent entity of its
\* event is not in the store.
MissingParent(s) ==
  \/ At(s, "bs_getJob") /\ ~JobFound(CurData(s).jobId)
  \/ At(s, "mc_getJob") /\ ~JobFound(escrows[CurData(s).escrowId].jobId)
  \/ At(s, "dr_getJob") /\ ~JobFound(escrows[CurData(s).escrowId].jobId)

\* C15: an event whose processing fails because its parent entity is unknown
\* is not re-enqueued.
IntegrityFailureNotRetried ==
  [][\A s \in 1..MaxTicks :
       (Busy(s) /\ MissingParent(s) /\ slots'[s] # slots[s] /\ failures' = failures)
         => \A i \in Instances : requeues'[i] = requeues[i]]_vars

NotifyPcs == {"jc_notify", "bs_notify", "mc_notify", "mc_notifyJob", "dr_notify"}

\* C16: when the notification call of an event throws, the event is not
\* re-enqueued (so its store writes and its notification are not repeated).
NotificationAtMostOnce ==
  [][\A s \in 1..MaxTicks :
       (Busy(s) /\ slots[s].pc \in NotifyPcs /\ slots'[s] # slots[s]
          /\ failures' = failures + 1)
         => \A i \in Instances : requeues'[i] = requeues[i]]_vars

\* C19: a Job's stored status becomes COMPLETED only from IN_PROGRESS and
\* only when every milestone of its escrow is COMPLETED (released).
CompletedOnlyFromInProgress ==
  [][\A j \in JobIds :
       (jobs'[j].status = "COMPLETED" /\ jobs[j].status # "COMPLETED")
         => /\ jobs[j].status = "IN_PROGRESS"
            /\ \A x \in EscrowIds :
                 escrows[x].jobId = j => CheckAllMilestonesCompleted(x)]_vars

\* C17: reconnectAttempts never exceeds 5, at most 5 reconnects are scheduled
\* since the last 'connect', and a disconnect or error arriving when
\* reconnectAttempts is 5 schedules no reconnect and is reported.
ReconnectCap ==
  /\ [](conn.reconnectAttempts <= 5 /\ conn.sinceConnect <= 5)
  /\ [][(conn.reconnectAttempts = 5 /\ conn'.events = conn.events + 1
           /\ conn'.last \in {"disconnect", "error"})
          => (conn'.timers = conn.timers /\ conn'.reported = conn.reported + 1
                /\ conn'.reconnectAttempts = 5)]_vars
ReconnectCapWitness ==
  /\ conn.reconnectAttempts = 5
  /\ conn.sinceConnect = 5
  /\ conn.reported > 0
  /\ conn.last \in {"disconnect", "error"}

\* C11: at most one bid of the job is ACCEPTED; a bid becomes ACCEPTED only
\* from ACTIVE while the job is OPEN, and in that step every other ACTIVE bid
\* of the job becomes REJECTED.
SingleAcceptance ==
  /\ [](Cardinality({k \in 1..Len(chain.bids) : chain.bids[k].status = "ACCEPTED"}) <= 1)
  /\ [][\A k \in 1..Len(chain.bids) :
          (chain'.bids[k].status = "ACCEPTED" /\ chain.bids[k].status # "ACCEPTED")
            => /\ chain.bids[k].status = "ACTIVE"
               /\ chain.status = "OPEN"
               /\ \A n \in 1..Len(chain.bids) :
                    (n # k /\ chain.bids[n].status = "ACTIVE")
                      => chain'.bids[n].status = "REJECTED"]_vars
SingleAcceptanceWitness ==
  /\ \E k \in 1..Len(chain.bids) : chain.bids[k].status = "ACCEPTED"
  /\ \E n \in 1..Len(chain.bids) : chain.bids[n].status = "REJECTED"
  /\ \E n \in 1..Len(chain.bids) : chain.bids[n].status = "WITHDRAWN"

\* C18: a call of createJob, submitBid or acceptBid leaves the durable store,
\* the cache and the event queues unchanged; with no signer it submits
\* nothing and fails with 'Signer not configured', and when it returns a
\* transaction it has submitted exactly that one; the store and the cache
\* change only in a step of an event processor.
SingleWriterViaEvents ==
  /\ [][api' # api
          => /\ store' = store /\ cache' = cache
             /\ queue' = queue /\ typesOrder' = typesOrder /\ slots' = slots
             /\ ~signer => (api'.pending = api.pending
                              /\ api'.last.result = "Signer not configured")
             /\ api'.last.result = "tx"
                  => api'.pending = Append(api.pending, api'.last.op)
             /\ api'.last.result # "tx" => api'.pending = api.pending]_vars
  /\ [][(store' # store \/ cache' # cache)
          => \E s \in 1..MaxTicks : Busy(s) /\ slots'[s] # slots[s]]_vars
SingleWriterViaEventsWitness ==
  /\ api.last.result = "tx"
  /\ api.pending # <<>>
  /\ \E j \in JobIds : jobs[j].status = "OPEN"
  /\ \E s \in 1..MaxTicks : Busy(s)

\* The wallets of the table rows that pass the where clause of findMany.
FilteredPool ==
  LET pool == SelectSeq(sel.table, LAMBDA a : Available(a, sel.excludeRegion))
  IN {pool[k].walletAddress : k \in 1..Len(pool)}

\* The active arbitrators outside both parties' regions, with and without
\* the load cap.
OutsideBoth(a) ==
  a.isActive /\ a.region \notin {sel.clientRegion, sel.freelancerRegion}
StrictPool == {a \in Range(sel.table) : OutsideBoth(a) /\ a.currentDisputes < LoadCap}
WidenedPool == {a \in Range(sel.table) : OutsideBoth(a)}

\* C21: when no arbitrator passes all filters but some pass once the load
\* cap is dropped, the panel is drawn from that widened pool, and it holds
\* no arbitrator of either party's region.
WideningOrder ==
  (sel.phase = "selected" /\ StrictPool = {} /\ WidenedPool # {})
    => /\ sel.panel # <<>>
       /\ \A k \in 1..Len(sel.panel) : ArbitratorOf(sel.panel[k]) \in WidenedPool

\* C22: the panel consists of min(panelSize, pool size) pairwise distinct
\* members of the filtered pool, panelSize = 3.
PanelDistinctFromPool ==
  sel.phase = "selected" =>
    /\ Len(sel.panel) = Min(3, Cardinality(FilteredPool))
    /\ \A k \in 1..Len(sel.panel) : sel.panel[k] \in FilteredPool
    /\ \A k1, k2 \in 1..Len(sel.panel) : k1 # k2 => sel.panel[k1] # sel.panel[k2]
PanelDistinctFromPoolWitness ==
  /\ sel.phase = "selected"
  /\ Cardinality(FilteredPool) > 3
  /\ Len(sel.panel) = 3
  /\ sel.panel # SubSeq([k \in 1..Len(sel.table) |-> sel.table[k].walletAddress], 1, 3)

\* C26: no two arbitrators of a selected panel come from the same region.
PanelRegionsDistinct ==
  sel.phase = "selected" =>
    \A k1, k2 \in 1..Len(sel.panel) :
      k1 # k2 => ArbitratorOf(sel.panel[k1]).region # ArbitratorOf(sel.panel[k2]).region

\* C30: every ordering of a pool is returned by the seeded shuffle for some
\* random value (the per-step indices are independent of each other).
FreshBitsPerSwap == sel.phase = "searched" => sel.found

Registry(f) == <<f.jobCounter, f.jobs, f.clientJobCount>>
Created(call) == call.op \in {"createJob", "createEscrow"} /\ call.error = "none"

EscrowOnlyByJobContract ==
  (factory.last.op = "createEscrow" /\ factory.last.error = "none")
    => IsValidJobContract(factory, factory.last.caller)

EarlierErrors == {"UnauthorizedClient", "Pausable: paused", "InvalidIPFSHash",
                  "InvalidBudget", "InvalidMilestones", "DeadlineInPast",
                  "MilestoneMismatch", "InsufficientFee"}
EscrowBalanceInvariant ==
  vault.totalEscrowBalance = SumOf(vault.escrows, VaultJobs)
EscrowBalanceInvariantWitness ==
  /\ vault.last = [op |-> "withdraw", result |-> "ok"]
  /\ \A j \in VaultJobs : vault.escrows[j] > 0

Failing(s) == Busy(s) /\ fails'[CurInst(s)] = fails[CurInst(s)] + 1
LaterTypes(ti) == {j \in (ti + 1)..Len(typesOrder) : queue[typesOrder[j]] # <<>>}

\* C24: a failure while processing one event never stops the drain: the
\* invocation that failed goes on with the next event of its batch, and when
\* the batch is finished with the first waiting event of the next event type
\* that has events waiting; the other invocations are not disturbed.
FailureIsolation ==
  [][\A s \in 1..MaxTicks :
       Failing(s) =>
         LET rest == Tail(slots[s].batch)
             later == LaterTypes(slots[s].ti)
         IN /\ rest # <<>> =>
                 /\ slots'[s].pc # "idle"
                 /\ slots'[s].batch = rest
                 /\ slots'[s].ti = slots[s].ti
            /\ (rest = <<>> /\ later # {}) =>
                 /\ slots'[s].pc # "idle"
                 /\ slots'[s].ti \in later
                 /\ \A j \in later : slots'[s].ti <= j
                 /\ Head(slots'[s].batch) = Head(queue[typesOrder[slots'[s].ti]])
            /\ \A r \in 1..MaxTicks : r # s => slots'[r] = slots[r]]_vars
\* The first of two events of one batch failed and was re-enqueued, and the
\* same invocation is processing the second.
FailureIsolationWitness ==
  /\ ~Busy(2)
  /\ Busy(1)
  /\ \E a, b \in 1..Len(enqSeq) :
       /\ a < b
       /\ EventData(enqSeq[a][1]).type = CurData(1).type
       /\ enqSeq[b] = CurInst(1)
       /\ fails[enqSeq[a]] >= 1
       /\ fails[enqSeq[b]] = 0
       /\ \E x \in Range(queue[CurData(1).type]) :
            <<x.ev, x.d>> = enqSeq[a] /\ x.retryCount >= 1

\* C25: a failed event is re-enqueued at the tail of the queue of its type,
\* and when it has been taken again for its retry, every event that was
\* waiting in that queue at the failure has been taken too, none of them
\* behind it in its batch.
RetryBehindWaiting ==
  /\ [](\A s \in 1..MaxTicks : \A k \in 1..Len(slots[s].batch) :
          LET x == slots[s].batch[k]
          IN (Busy(s) /\ x.retryCount >= 1) =>
               \A w \in ahead[<<x.ev, x.d>>] :
                 /\ w \notin Range(queue[EventData(x.ev).type])
                 /\ \A m \in k..Len(slots[s].batch) : slots[s].batch[m] # w)
  /\ [][\A s \in 1..MaxTicks :
          (Failing(s) /\ requeues' # requeues) =>
            queue'[CurData(s).type]
              = Append(queue[CurData(s).type],
                       [Cur(s) EXCEPT !.retryCount = @ + 1])]_vars
RetryBehindWaitingWitness ==
  \E s \in 1..MaxTicks :
    /\ Busy(s)
    /\ Cur(s).retryCount >= 1
    /\ ahead[CurInst(s)] # {}

Received == Range(ingest.received)
WasEnqueued(i) == i \in Range(enqSeq)
SeqPos(q, x) == CHOOSE k \in 1..Len(q) : q[k] = x

\* C32: no event is lost before it is enqueued: an event the subscription
\* delivered whose handler has returned is on record as enqueued or as
\* dead-lettered, also when the block-timestamp lookup or the log decoding of
\* its handler failed.
NoEventLostBeforeEnqueue ==
  \A i \in Received :
    i \in ingest.pending \/ WasEnqueued(i) \/ i \in DeadLetter

\* C34: events of one type are enqueued in the order in which the
\* subscription delivered them.
EnqueuedInDeliveryOrder ==
  \A a, b \in 1..Len(ingest.received) :
    LET x == ingest.received[a]
        y == ingest.received[b]
    IN (a < b /\ EventData(x[1]).type = EventData(y[1]).type
          /\ WasEnqueued(x) /\ WasEnqueued(y))
         => SeqPos(enqSeq, x) < SeqPos(enqSeq, y)

\* C33: if the JobCreated event of job J was enqueued before a BidSubmitted
\* event for J and every side effect succeeds, the bid is not dropped (and so
\* can still be saved): it is never given up for 'Job not found'.
BidAfterJobNotDropped ==
  \A a, b \in 1..Len(enqSeq) :
    (a < b /\ failures = 0
       /\ EventData(enqSeq[a][1]).type = "jobCreated"
       /\ EventData(enqSeq[b][1]).type = "bidSubmitted"
       /\ EventData(enqSeq[a][1]).jobId = EventData(enqSeq[b][1]).jobId)
      => enqSeq[b] \notin dropped

\* this.provider is a provider created by a reconnect and its socket is open.
Reconnected ==
  Len(conn.sockets) > 1 /\ conn.sockets[Len(conn.sockets)] = "open"

\* C31: after a reconnect attempt has succeeded, every event the ledger emits
\* is delivered to its handler: none is missed.
SubscriptionSurvivesReconnect ==
  [][Reconnected => conn'.missed = conn.missed]_vars

\* C35: at most one reconnect is pending at any time.
OneReconnectPending == conn.timers <= 1

Settled(i) ==
  ~InQueue(i) /\ ~InBatch(i) /\ (applied[i] > 0 \/ i \in dropped)

\* C36: when the drain tick keeps firing and every handler call terminates,
\* every enqueued event eventually leaves its queue for good, applied or with
\* its retry budget exhausted.
EventualDrain ==
  <>[](\A i \in Instances : Enqueued(i) => Settled(i))
\* A permanently failing event was given up and another event, enqueued
\* after it, was applied.
EventualDrainWitness ==
  \E a, b \in 1..Len(enqSeq) :
    /\ a < b
    /\ enqSeq[a] \in dropped /\ fails[enqSeq[a]] = MaxRetries + 1
    /\ Settled(enqSeq[a])
    /\ applied[enqSeq[b]] > 0 /\ Settled(enqSeq[b])

TrackedEmpty == \A h \in TxHashes : wallet.pendingTransactions[h] = "none"

\* C37: after disconnectWallet the tracked-transaction map is empty and stays
\* empty until a new transaction is tracked, and no callback of an earlier
\* transaction emits transactionConfirmed or transactionFailed.
ClearedStaysEmpty ==
  /\ [](wallet.cleared => TrackedEmpty)
  /\ [][(wallet.cleared /\ wallet'.cleared /\ wallet'.emitted # wallet.emitted)
          => wallet'.emitted.event \notin {"transactionConfirmed", "transactionFailed"}]_vars

\* C38: when connectWallet has failed, the service is disconnected and no
\* provider, signer, account or contracts are set.
ConnectFailureLeavesDisconnected ==
  wallet.call = [op |-> "connectWallet", result |-> "failed"]
    => /\ ~IsConnected(wallet)
       /\ ~wallet.provider /\ ~wallet.signer /\ ~wallet.contracts
       /\ wallet.currentAccount = "none"

\* C39: whenever the wallet service is connected with contracts initialized,
\* currentChainId is one of the supported chains.
ConnectedOnSupportedChain ==
  (IsConnected(wallet) /\ wallet.contracts)
    => wallet.currentChainId \in SupportedChainIds

\* C40: every tracked transaction that is PENDING eventually becomes
\* CONFIRMED or FAILED, and one that is CONFIRMED or FAILED is eventually
\* removed from the tracked-transaction map.
TrackedLifecycle ==
  \A h \in TxHashes :
    /\ (wallet.pendingTransactions[h] = "PENDING")
         ~> (wallet.pendingTransactions[h] \in {"CONFIRMED", "FAILED"})
    /\ (wallet.pendingTransactions[h] \in {"CONFIRMED", "FAILED"})
         ~> (wallet.pendingTransactions[h] = "none")

====
